---- MODULE Spec2Model ----
(***************************************************************************)
(* The usage log store and analytics engine of vendetta-config-inizio     *)
(* (the TypeScript of the "Agent Usage Logging System" rule).              *)
(*                                                                         *)
(* JavaScript objects are TLA+ functions from property names to values:   *)
(* a property the object does not have is a name outside its DOMAIN, and  *)
(* reading it gives Undefined.  The persisted file is absent, a text that *)
(* JSON.parse rejects, or the JSON serialisation of a value.  An async    *)
(* method runs atomically between two awaits of file I/O; the clients of  *)
(* the store are the processes of Procs.                                   *)
(***************************************************************************)
EXTENDS Integers, Sequences, FiniteSets, TLC

VARIABLES
    file,       \* the persisted document at filePath
    now,        \* the store-local clock, in ms since the epoch
    nextId,     \* the next value generateId() hands out
    pc,         \* per client: "idle", "readFile" or "writeFile" (the pending await)
    op,         \* per client: the method being run
    arg,        \* per client: the entry of log, the filters of query
    text,       \* per client: the serialised store handed to fs.writeFile
    pre,        \* per client: the file as it was when the running call began
    last,       \* history: the call that finished last, if none has begun since
    sawSave,    \* history: ids saved by other clients between a client's load and its save
    succeeded,  \* history: the number of appends that returned without an error
    calcInput,  \* the entry sequence handed to the analytics functions
    calcOutput, \* what the analytics function returned or threw
    tracker     \* the OpencodeUsageTracker: currentTask, its pending call, its history

vars == <<file, now, nextId, pc, op, arg, text, pre, last, sawSave, succeeded,
          calcInput, calcOutput, tracker>>

storeVars == <<file, now, nextId, pc, op, arg, text, pre, last, sawSave, succeeded>>

calcVars == <<calcInput, calcOutput, tracker>>

-----------------------------------------------------------------------------
(* Bounds of the model *)

\* appends (calls of generateId) in one behaviour of a single writer
MaxAppends == 3

\* appends (calls of generateId) in one behaviour of overlapping clients
MaxOverlapping == 2

\* the last instant the clock reaches
MaxClock == 2

\* the longest entry sequence handed to an analytics function
MaxCalcLen == 2

\* the most entries in a collection that query reads
MaxStored == 3

\* the most entries of one day in a collection whose skills are ranked
MaxDayEntries == 7

\* the most entries of one day in a collection whose summary is at the thresholds
MaxInsightEntries == 5

\* calls of beforeExecution and afterExecution in one behaviour
MaxTrackerCalls == 3

Procs == {"c1", "c2"}

-----------------------------------------------------------------------------
(* JavaScript values *)

\* the value of a numeric property that is undefined (tokensUsed?: number)
Undefined == -1

NoValue == "none"

\* obj.k
Get(obj, k) == IF k \in DOMAIN obj THEN obj[k] ELSE Undefined

Has(obj, k) == k \in DOMAIN obj

MsPerHour == 3600000

MsPerDay == 86400000

\* Date.prototype.toISOString: "YYYY-MM-DD" "T" "HH" ":mm:ss.sssZ", in UTC
ToISOString(t) ==
    [date |-> t \div MsPerDay,
     hour |-> (t % MsPerDay) \div MsPerHour,
     rest |-> t % MsPerHour]

\* new Date(isoString).getTime()
ParseDate(s) == s.date * MsPerDay + s.hour * MsPerHour + s.rest

Returned(v) == [status |-> "returned", value |-> v, error |-> "none"]

Threw(e) == [status |-> "threw", value |-> NoValue, error |-> e]

Pending == [status |-> "pending", value |-> NoValue, error |-> "none"]

-----------------------------------------------------------------------------
(* The persisted file and JSON *)

Absent == [kind |-> "absent"]

\* a text JSON.parse rejects: the empty file, or a cut-off document
RawText(s) == [kind |-> "raw", raw |-> s]

JsonText(v) == [kind |-> "json", json |-> v]

\* JSON.stringify leaves out a property whose value is undefined
StringifyOutcome(o) ==
    IF Has(o, "tokensUsed") /\ o.tokensUsed = Undefined
    THEN [k \in DOMAIN o \ {"tokensUsed"} |-> o[k]]
    ELSE o

StringifyEntry(e) == [e EXCEPT !.outcome = StringifyOutcome(e.outcome)]

\* JSON.stringify(store, null, 2)
Stringify(store) ==
    JsonText([store EXCEPT !.entries = [i \in DOMAIN store.entries |->
                                           StringifyEntry(store.entries[i])]])

\* JSON.parse(data)
ParseThrows(data) == data.kind = "raw"

Parse(data) == data.json

-----------------------------------------------------------------------------
(* Inputs *)

Agents == {"sisyphus", "oracle"}

Categories == {"testing", "other"}

\* the entries callers pass to log; id and timestamp are whatever the caller left there
EntryBuild ==
    [id |-> 0, timestamp |-> ToISOString(0), agent |-> "sisyphus",
     invocation |-> [type |-> "skill", name |-> "build", category |-> "testing"],
     context |-> [task |-> "t1", project |-> "p"],
     outcome |-> [success |-> TRUE, duration |-> 1000, tokensUsed |-> 1500]]

EntryCommand ==
    [id |-> 0, timestamp |-> ToISOString(MaxClock), agent |-> "oracle",
     invocation |-> [type |-> "command", name |-> "run-build", category |-> "other"],
     context |-> [task |-> "t2", project |-> "p"],
     outcome |-> [success |-> FALSE, duration |-> 3000, tokensUsed |-> Undefined]]

EntryRule ==
    [id |-> 0 - 7, timestamp |-> ToISOString(0), agent |-> "sisyphus",
     invocation |-> [type |-> "rule", name |-> "git-workflow", category |-> "other"],
     context |-> [task |-> "t1", project |-> "p"],
     outcome |-> [success |-> FALSE, duration |-> 0]]

CallerEntries == {EntryBuild, EntryCommand, EntryRule}

\* the object {}
EmptyObject == [k \in {} |-> NoValue]

NoFilters == EmptyObject

\* a function from the supplied filter names to their values
FilterRecord(a, c, s, e) ==
    [k \in (IF a = NoValue THEN {} ELSE {"agent"}) \cup
           (IF c = NoValue THEN {} ELSE {"category"}) \cup
           (IF s < 0 THEN {} ELSE {"startTime"}) \cup
           (IF e < 0 THEN {} ELSE {"endTime"}) |->
        CASE k = "agent" -> [str |-> a]
          [] k = "category" -> [str |-> c]
          [] k = "startTime" -> [time |-> s]
          [] k = "endTime" -> [time |-> e]]

\* a time below 0 stands for a bound that is not supplied
AllFilters ==
    {FilterRecord(a, c, s, e) : a \in {NoValue, "sisyphus"}, c \in {NoValue, "testing"},
                                s \in {0 - 1, 1}, e \in {0 - 1, 1, 2}}

FewFilters == {NoFilters, FilterRecord("sisyphus", NoValue, 1, 0 - 1)}

\* documents on disk that no save of this program wrote
ForeignFiles ==
    {RawText(""), RawText("{"),
     JsonText(EmptyObject),
     JsonText([metadata |-> [version |-> "1.0", lastUpdated |-> ToISOString(0)]]),
     JsonText([entries |-> <<>>])}

-----------------------------------------------------------------------------
(* UsageLogger *)

DefaultStore(t) ==
    [entries |-> <<>>, metadata |-> [version |-> "1.0", lastUpdated |-> ToISOString(t)]]

\* load(): what it returns or throws on file f at time t
load(f, t) ==
    IF f.kind = "absent" THEN Returned(DefaultStore(t))
    ELSE IF ParseThrows(f) THEN Threw("SyntaxError")
    ELSE Returned(Parse(f))

\* (a load that writes the default store when the file is missing)
AfterLoadCreates(f, t) == IF f.kind = "absent" THEN Stringify(DefaultStore(t)) ELSE f

\* the file after load(): fs.readFile is its only file operation, the ENOENT branch
\* returns the default store and writes nothing
AfterLoad(f, t) == f

\* the next identifier: fresh on every call
generateId == nextId

\* (a log that keeps the id the caller left in the entry)
StampEntryKeepsId(entry, id, t) == [entry EXCEPT !.timestamp = ToISOString(t)]

\* (a log that keeps the timestamp the caller left in the entry)
StampEntryKeepsTimestamp(entry, id, t) == [entry EXCEPT !.id = id]

\* entry.id = generateId(); entry.timestamp = new Date().toISOString()
StampEntry(entry, id, t) == [entry EXCEPT !.id = id, !.timestamp = ToISOString(t)]

\* (a log that puts the entry first)
UnshiftEntry(store, entry) == [store EXCEPT !.entries = <<entry>> \o store.entries]

\* store.entries.push(entry)
PushEntry(store, entry) == [store EXCEPT !.entries = Append(store.entries, entry)]

\* (a save that leaves lastUpdated as it was loaded)
TouchStoreNot(store, t) == store

\* store.metadata.lastUpdated = new Date().toISOString()
TouchStore(store, t) == [store EXCEPT !.metadata.lastUpdated = ToISOString(t)]

\* a truthy filter value: a non-empty string, any Date
Truthy(v) == IF Has(v, "str") THEN v.str # "" ELSE TRUE

Supplied(filters, k) == Has(filters, k) /\ Truthy(filters[k])

\* (a matches that forgets the category)
matchesNoCategory(entry, filters) ==
    IF Supplied(filters, "agent") /\ entry.agent # filters.agent.str THEN FALSE
    ELSE IF Supplied(filters, "startTime")
            /\ ParseDate(entry.timestamp) < filters.startTime.time THEN FALSE
    ELSE IF Supplied(filters, "endTime")
            /\ ParseDate(entry.timestamp) > filters.endTime.time THEN FALSE
    ELSE TRUE

\* (a matches whose time bounds are exclusive)
matchesExclusive(entry, filters) ==
    IF Supplied(filters, "agent") /\ entry.agent # filters.agent.str THEN FALSE
    ELSE IF Supplied(filters, "startTime")
            /\ ParseDate(entry.timestamp) <= filters.startTime.time THEN FALSE
    ELSE IF Supplied(filters, "endTime")
            /\ ParseDate(entry.timestamp) >= filters.endTime.time THEN FALSE
    ELSE IF Supplied(filters, "category")
            /\ entry.invocation.category # filters.category.str THEN FALSE
    ELSE TRUE

matches(entry, filters) ==
    IF Supplied(filters, "agent") /\ entry.agent # filters.agent.str THEN FALSE
    ELSE IF Supplied(filters, "startTime")
            /\ ParseDate(entry.timestamp) < filters.startTime.time THEN FALSE
    ELSE IF Supplied(filters, "endTime")
            /\ ParseDate(entry.timestamp) > filters.endTime.time THEN FALSE
    ELSE IF Supplied(filters, "category")
            /\ entry.invocation.category # filters.category.str THEN FALSE
    ELSE TRUE

\* (a filter that loses the first entry it keeps)
FilterEntriesSkipFirst(entries, filters) ==
    LET kept == SelectSeq(entries, LAMBDA e : matches(e, filters))
    IN  IF kept = <<>> THEN kept ELSE Tail(kept)

\* store.entries.filter(entry => this.matches(entry, filters))
FilterEntries(entries, filters) == SelectSeq(entries, LAMBDA e : matches(e, filters))

\* query(filters) on what load() gave
query(loaded, filters) ==
    IF loaded.status = "threw" THEN loaded
    ELSE IF ~Has(loaded.value, "entries") THEN Threw("TypeError")
    ELSE Returned(FilterEntries(loaded.value.entries, filters))

\* log(entry) from the value of load() up to the call of fs.writeFile: the text handed
\* to fs.writeFile, or what log throws before it
logPrepare(loaded, entry, id, t) ==
    IF loaded.status = "threw" THEN loaded
    ELSE IF ~Has(loaded.value, "entries") THEN Threw("TypeError")
    ELSE LET pushed == PushEntry(loaded.value, StampEntry(entry, id, t))
         IN  IF ~Has(pushed, "metadata") THEN Threw("TypeError")
             ELSE Returned(Stringify(TouchStore(pushed, t)))

\* save(store) up to the call of fs.writeFile: the text handed to fs.writeFile, or
\* what save throws before it
savePrepare(store, t) ==
    IF ~Has(store, "metadata") THEN Threw("TypeError")
    ELSE IF ~Has(store, "entries") THEN Returned(JsonText(TouchStore(store, t)))
    ELSE Returned(Stringify(TouchStore(store, t)))

\* what a rejected fs.writeFile leaves at filePath: open(filePath, 'w') was refused
\* and nothing changed, or the file was created or truncated and the data cut off
WriteResidue(f, error) ==
    IF error = "EACCES" THEN {f} ELSE {RawText(""), RawText("{")}

WriteErrors == {"EACCES", "ENOSPC"}

\* (a write that adds the new entry to the document on disk)
AppendToFile(f, t) ==
    IF f.kind = "json" /\ Has(f.json, "entries")
    THEN JsonText([t.json EXCEPT !.entries =
                      Append(f.json.entries, t.json.entries[Len(t.json.entries)])])
    ELSE t

\* fs.writeFile(filePath, text): the whole document is replaced
ReplaceFile(f, t) == t

LastId(t) == t.json.entries[Len(t.json.entries)].id

-----------------------------------------------------------------------------
(* JavaScript numbers: the fraction n/d in lowest terms with d > 0, or with d = 0  *)
(* NaN (n = 0), Infinity (n = 1) and -Infinity (n = -1).  Rounding is left out.   *)

RECURSIVE GCD(_, _)
GCD(a, b) == IF b = 0 THEN a ELSE GCD(b, a % b)

Abs(i) == IF i < 0 THEN 0 - i ELSE i

Sign(i) == IF i < 0 THEN 0 - 1 ELSE IF i = 0 THEN 0 ELSE 1

Frac(n, d) ==
    IF d = 0 THEN [n |-> Sign(n), d |-> 0]
    ELSE LET g == GCD(Abs(n), Abs(d))
         IN  [n |-> Sign(d) * (n \div g), d |-> Abs(d) \div g]

Num(i) == [n |-> i, d |-> 1]

NaN == [n |-> 0, d |-> 0]

Infinity == [n |-> 1, d |-> 0]

IsFinite(x) == x.d # 0

\* a / b
NumDiv(a, b) == Frac(a.n * b.d, a.d * b.n)

\* a * b
NumMul(a, b) == Frac(a.n * b.n, a.d * b.d)

\* a + b
NumAdd(a, b) == Frac(a.n * b.d + b.n * a.d, a.d * b.d)

\* a - b
NumSub(a, b) == Frac(a.n * b.d - b.n * a.d, a.d * b.d)

\* (a comparison that holds for equal numbers too)
NumLessOrEqual(a, b) ==
    /\ a # NaN
    /\ b # NaN
    /\ IF a.d = 0 \/ b.d = 0
       THEN (a.d = 0 /\ a.n < 0) \/ (b.d = 0 /\ b.n > 0)
       ELSE a.n * b.d <= b.n * a.d

\* a < b; false when either is NaN
NumLess(a, b) ==
    /\ a # NaN
    /\ b # NaN
    /\ IF a.d = 0 \/ b.d = 0
       THEN (a.d = 0 /\ a.n < 0 /\ b # a) \/ (b.d = 0 /\ b.n > 0 /\ b # a)
       ELSE a.n * b.d < b.n * a.d

-----------------------------------------------------------------------------
(* MetricsCalculator *)

\* (a filter that takes an entry that took no time for a success)
SuccessfulOrInstant(metrics) ==
    {i \in DOMAIN metrics : metrics[i].outcome.success \/ metrics[i].outcome.duration = 0}

\* metrics.filter(m => m.outcome.success)
Successful(metrics) == {i \in DOMAIN metrics : metrics[i].outcome.success}

\* metrics.filter(m => m.invocation.type === type)
OfType(metrics, type) == {i \in DOMAIN metrics : metrics[i].invocation.type = type}

\* values.reduce((sum, v) => sum + v, 0)
RECURSIVE Sum(_)
Sum(values) == IF values = <<>> THEN 0 ELSE Head(values) + Sum(Tail(values))

\* x || 0 for a numeric property
OrZero(x) == IF x = Undefined THEN 0 ELSE x

Timestamps(metrics) == {ParseDate(metrics[i].timestamp) : i \in DOMAIN metrics}

Min(S) == CHOOSE x \in S : \A y \in S : x <= y

Max(S) == CHOOSE x \in S : \A y \in S : x >= y

\* getTimeRange(metrics).duration: Math.min() of nothing is Infinity, Math.max() of
\* nothing is -Infinity, and the time of either as a Date is NaN
TimeRangeDuration(metrics) ==
    IF metrics = <<>> THEN NaN
    ELSE Num(Max(Timestamps(metrics)) - Min(Timestamps(metrics)))

calculateInvocationsPerHour(metrics) ==
    LET hours == NumDiv(TimeRangeDuration(metrics), Num(MsPerHour))
    IN  NumDiv(Num(Len(metrics)), hours)

\* (a total that leaves out the last duration)
DurationsButLast(metrics) ==
    [i \in DOMAIN metrics |-> IF i = Len(metrics) THEN 0 ELSE metrics[i].outcome.duration]

Durations(metrics) == [i \in DOMAIN metrics |-> metrics[i].outcome.duration]

TokensUsed(metrics) == [i \in DOMAIN metrics |-> OrZero(Get(metrics[i].outcome, "tokensUsed"))]

Costs(metrics) == [i \in DOMAIN metrics |-> OrZero(Get(metrics[i].outcome, "cost"))]

\* the identifier totalTokensUsed that calculate reads for tokensPerTask
totalTokensUsed(metrics) == Sum(TokensUsed(metrics))

calculate(metrics) ==
    LET total == Len(metrics)
        successful == Cardinality(Successful(metrics))
        totalDuration == Sum(Durations(metrics))
        averageDuration == NumDiv(Num(totalDuration), Num(total))
    IN  Returned(
          [totalInvocations |-> total,
           skillInvocations |-> Cardinality(OfType(metrics, "skill")),
           commandInvocations |-> Cardinality(OfType(metrics, "command")),
           ruleApplications |-> Cardinality(OfType(metrics, "rule")),
           averageDuration |-> averageDuration,
           totalDuration |-> totalDuration,
           successRate |-> NumMul(NumDiv(Num(successful), Num(total)), Num(100)),
           failureRate |-> NumMul(NumDiv(Num(total - successful), Num(total)), Num(100)),
           totalTokensUsed |-> Sum(TokensUsed(metrics)),
           totalCost |-> Sum(Costs(metrics)),
           invocationsPerHour |-> calculateInvocationsPerHour(metrics),
           tokensPerTask |-> NumDiv(Num(totalTokensUsed(metrics)), Num(total))])

-----------------------------------------------------------------------------
(* UsageAnalyzer *)

\* new Map(): an object with no properties of its own; the pairs set on it are kept
\* in its internal slot, in insertion order
NewMap == [own |-> <<>>, mapData |-> <<>>]

MapHas(map, key) == \E i \in DOMAIN map.mapData : map.mapData[i].key = key

MapGet(map, key) ==
    (CHOOSE pair \in {map.mapData[i] : i \in DOMAIN map.mapData} : pair.key = key).value

MapSet(map, key, value) ==
    IF MapHas(map, key)
    THEN [map EXCEPT !.mapData = [i \in DOMAIN map.mapData |->
                                     IF map.mapData[i].key = key
                                     THEN [key |-> key, value |-> value]
                                     ELSE map.mapData[i]]]
    ELSE [map EXCEPT !.mapData = Append(map.mapData, [key |-> key, value |-> value])]

\* Object.entries(obj): the own enumerable string-keyed properties of obj
ObjectEntries(obj) == obj.own

\* groupBySkill after the first n entries of metrics
RECURSIVE groupFirst(_, _)
groupFirst(metrics, n) ==
    IF n = 0 THEN NewMap
    ELSE LET groups == groupFirst(metrics, n - 1)
             m == metrics[n]
             skill == m.invocation.name
         IN  IF m.invocation.type # "skill" THEN groups
             ELSE IF MapHas(groups, skill)
                  THEN MapSet(groups, skill, Append(MapGet(groups, skill), m))
                  ELSE MapSet(groups, skill, <<m>>)

groupBySkill(metrics) == groupFirst(metrics, Len(metrics))

getTimeOfDay(hour) ==
    IF hour >= 5 /\ hour < 12 THEN "morning"
    ELSE IF hour >= 12 /\ hour < 17 THEN "afternoon"
    ELSE IF hour >= 17 /\ hour < 21 THEN "evening"
    ELSE "night"

\* parseInt(timestamp.split('T')[1]): the digits before the first ':'
HourOf(timestamp) == timestamp.hour

\* the body of the loop of analyzePatterns for one [skill, skillMetrics] pair
PatternOf(pair) ==
    LET skillMetrics == pair.value
        frequency == Len(skillMetrics)
    IN  [skill |-> pair.key,
         frequency |-> frequency,
         averageDuration |-> NumDiv(Num(Sum(Durations(skillMetrics))), Num(frequency)),
         successRate |-> NumMul(NumDiv(Num(Cardinality(Successful(skillMetrics))),
                                       Num(frequency)), Num(100)),
         timeOfDay |-> getTimeOfDay(HourOf(skillMetrics[1].timestamp))]

\* patterns.sort((a, b) => b.frequency - a.frequency): stable, highest first
RECURSIVE SortByFrequency(_)
SortByFrequency(patterns) ==
    IF patterns = <<>> THEN <<>>
    ELSE LET n == Len(patterns)
             sorted == SortByFrequency(SubSeq(patterns, 1, n - 1))
             k == Cardinality({i \in DOMAIN sorted :
                                  sorted[i].frequency >= patterns[n].frequency})
         IN  SubSeq(sorted, 1, k) \o <<patterns[n]>> \o SubSeq(sorted, k + 1, Len(sorted))

analyzePatterns(metrics) ==
    LET skills == groupBySkill(metrics)
        pairs == ObjectEntries(skills)
    IN  Returned(SortByFrequency([i \in DOMAIN pairs |-> PatternOf(pairs[i])]))

-----------------------------------------------------------------------------
(* BenchmarkComparator *)

\* (a comparison that re-normalises the success-rate delta by the baseline rate)
compareNormalised(baseline, current) ==
    LET b == calculate(baseline)
        c == calculate(current)
    IN  IF b.status = "threw" THEN b
        ELSE IF c.status = "threw" THEN c
        ELSE Returned(
          [baseline |-> b.value,
           current |-> c.value,
           improvements |->
             [duration |-> NumSub(b.value.averageDuration, c.value.averageDuration),
              successRate |-> NumSub(c.value.successRate, b.value.successRate),
              tokensPerTask |-> NumSub(b.value.tokensPerTask, c.value.tokensPerTask)],
           percentImprovement |->
             [duration |->
                NumMul(NumDiv(NumSub(b.value.averageDuration, c.value.averageDuration),
                              b.value.averageDuration), Num(100)),
              successRate |->
                NumMul(NumDiv(NumSub(c.value.successRate, b.value.successRate),
                              b.value.successRate), Num(100)),
              tokensPerTask |->
                NumMul(NumDiv(NumSub(b.value.tokensPerTask, c.value.tokensPerTask),
                              b.value.tokensPerTask), Num(100))]])

compare(baseline, current) ==
    LET b == calculate(baseline)
        c == calculate(current)
    IN  IF b.status = "threw" THEN b
        ELSE IF c.status = "threw" THEN c
        ELSE Returned(
          [baseline |-> b.value,
           current |-> c.value,
           improvements |->
             [duration |-> NumSub(b.value.averageDuration, c.value.averageDuration),
              successRate |-> NumSub(c.value.successRate, b.value.successRate),
              tokensPerTask |-> NumSub(b.value.tokensPerTask, c.value.tokensPerTask)],
           percentImprovement |->
             [duration |->
                NumMul(NumDiv(NumSub(b.value.averageDuration, c.value.averageDuration),
                              b.value.averageDuration), Num(100)),
              successRate |-> NumSub(c.value.successRate, b.value.successRate),
              tokensPerTask |->
                NumMul(NumDiv(NumSub(b.value.tokensPerTask, c.value.tokensPerTask),
                              b.value.tokensPerTask), Num(100))]])

-----------------------------------------------------------------------------
(* ReportGenerator *)

\* getTopSkills(metrics, topN = 5)
TopN == 5

\* new Date(date.getFullYear(), date.getMonth(), date.getDate()).getTime(): midnight
\* of the local day of date, local time being UTC + tz
LocalMidnight(date, tz) == ((date + tz) \div MsPerDay) * MsPerDay - tz

\* (a day that ends with the first instant of the next one)
endOfDayNextMidnight(startOfDay) == startOfDay + MsPerDay

\* new Date(startOfDay.getTime() + 24 * 60 * 60 * 1000 - 1)
endOfDay(startOfDay) == startOfDay + MsPerDay - 1

\* skillCounts after the first n entries of metrics
RECURSIVE countFirst(_, _)
countFirst(metrics, n) ==
    IF n = 0 THEN NewMap
    ELSE LET skillCounts == countFirst(metrics, n - 1)
             m == metrics[n]
             count == IF MapHas(skillCounts, m.invocation.name)
                      THEN MapGet(skillCounts, m.invocation.name) ELSE 0
         IN  IF m.invocation.type # "skill" THEN skillCounts
             ELSE MapSet(skillCounts, m.invocation.name, count + 1)

\* (a ranking that leaves the pairs in insertion order)
InsertionOrder(pairs) == pairs

\* pairs.sort((a, b) => b[1] - a[1]): stable, highest first
RECURSIVE SortByCount(_)
SortByCount(pairs) ==
    IF pairs = <<>> THEN <<>>
    ELSE LET n == Len(pairs)
             sorted == SortByCount(SubSeq(pairs, 1, n - 1))
             k == Cardinality({i \in DOMAIN sorted : sorted[i].value >= pairs[n].value})
         IN  SubSeq(sorted, 1, k) \o <<pairs[n]>> \o SubSeq(sorted, k + 1, Len(sorted))

\* array.slice(0, n)
Slice(array, n) == SubSeq(array, 1, IF Len(array) < n THEN Len(array) ELSE n)

getTopSkills(metrics) ==
    LET skillCounts == countFirst(metrics, Len(metrics))
        top == Slice(SortByCount(skillCounts.mapData), TopN)
    IN  [i \in DOMAIN top |-> [skill |-> top[i].key, count |-> top[i].value]]

\* x.toFixed(1) of x >= 0: the number of tenths nearest to x, the larger of two that
\* are as near; "NaN" and "Infinity" for the values that are not finite
ToFixed1(x) ==
    IF x = NaN THEN [text |-> "NaN"]
    ELSE IF ~IsFinite(x) THEN [text |-> "Infinity"]
    ELSE [tenths |-> (20 * x.n + x.d) \div (2 * x.d)]

generateInsights(metrics, topSkills) ==
    LET lowSuccess ==
            IF NumLess(metrics.successRate, Num(80))
            THEN <<[kind |-> "Low success rate", value |-> ToFixed1(metrics.successRate)]>>
            ELSE <<>>
        highDuration ==
            IF NumLess(Num(30000), metrics.averageDuration)
            THEN <<[kind |-> "High average duration",
                    value |-> ToFixed1(NumDiv(metrics.averageDuration, Num(1000)))]>>
            ELSE <<>>
        lowInvocations ==
            IF NumLess(metrics.invocationsPerHour, Num(5))
            THEN <<[kind |-> "Low invocations per hour",
                    value |-> ToFixed1(metrics.invocationsPerHour)]>>
            ELSE <<>>
    IN  IF topSkills = <<>> THEN Threw("TypeError")
        ELSE Returned(lowSuccess \o highDuration \o lowInvocations \o
                      <<[kind |-> "Most used skill", skill |-> topSkills[1].skill,
                         count |-> topSkills[1].count]>>)

\* generateDailySummary from the entries the query returned
SummaryOf(metrics, startOfDay) ==
    LET summary == calculate(metrics)
        topSkills == getTopSkills(metrics)
        insights == IF summary.status = "threw" THEN summary
                    ELSE generateInsights(summary.value, topSkills)
    IN  IF insights.status = "threw" THEN insights
        ELSE Returned(
          [date |-> ToISOString(startOfDay).date,
           totalInvocations |-> summary.value.totalInvocations,
           skillInvocations |-> summary.value.skillInvocations,
           commandInvocations |-> summary.value.commandInvocations,
           ruleApplications |-> summary.value.ruleApplications,
           averageDuration |-> summary.value.averageDuration,
           successRate |-> summary.value.successRate,
           topSkills |-> topSkills,
           insights |-> insights.value])

\* generateDailySummary(date) on file f at time t, in the time zone UTC + tz
generateDailySummary(f, t, date, tz) ==
    LET startOfDay == LocalMidnight(date, tz)
        metrics == query(load(f, t), [startTime |-> [time |-> startOfDay],
                                      endTime |-> [time |-> endOfDay(startOfDay)]])
    IN  IF metrics.status = "threw" THEN metrics
        ELSE SummaryOf(metrics.value, startOfDay)

-----------------------------------------------------------------------------
(* OpencodeUsageTracker *)

\* categoryMap[skill] || 'other'
categorizeSkill(skill) ==
    CASE skill \in {"analyze-codebase", "refactor-code"} -> "code-analysis"
      [] skill = "review-code" -> "code-review"
      [] skill \in {"find-files", "read-files", "edit-files"} -> "file-operations"
      [] skill \in {"search-repos", "fetch-docs", "find-examples"} -> "external-research"
      [] skill \in {"run-tests", "generate-coverage", "e2e-testing"} -> "testing"
      [] OTHER -> "other"

\* !this.currentTask is false: currentTask is neither undefined nor the empty string
TruthyTask(task) == task # NoValue /\ task # ""

\* the object beforeExecution passes to log; id and timestamp, which the literal
\* leaves out, read undefined until log sets them
BeforeEntry(skill, task) ==
    [id |-> Undefined, timestamp |-> NoValue, agent |-> "sisyphus",
     invocation |-> [type |-> "skill", name |-> skill, category |-> categorizeSkill(skill)],
     context |-> [task |-> task, project |-> "p"],
     outcome |-> [success |-> FALSE, duration |-> 0]]

\* the object afterExecution passes to log
AfterEntry(skill, task, success, duration, tokensUsed) ==
    [id |-> Undefined, timestamp |-> NoValue, agent |-> "sisyphus",
     invocation |-> [type |-> "skill", name |-> skill, category |-> categorizeSkill(skill)],
     context |-> [task |-> task, project |-> "p"],
     outcome |-> [success |-> success, duration |-> duration, tokensUsed |-> tokensUsed]]

-----------------------------------------------------------------------------
(* cli/usage-summary.js *)

\* parseInt(process.argv[3]) || 7
DefaultBaselineDays == 7

\* case 'benchmark' of main on file f at time t: the two queries, and the call of
\* calculator.compare on a MetricsCalculator, a class that has no method compare
benchmark(f, t, baselineDays) ==
    LET today == t
        baselineStart == today - baselineDays * MsPerDay
        baseline == query(load(f, t), [startTime |-> [time |-> baselineStart],
                                       endTime |-> [time |-> today]])
        current == query(load(f, t), [startTime |-> [time |-> today],
                                      endTime |-> [time |-> today + MsPerDay]])
    IN  IF baseline.status = "threw" THEN baseline
        ELSE IF current.status = "threw" THEN current
        ELSE [status |-> "threw", value |-> NoValue, error |-> "TypeError",
              passed |-> [baseline |-> baseline.value, current |-> current.value]]

-----------------------------------------------------------------------------
(* Steps of the clients *)

NoCall == [client |-> "none", op |-> "none", arg |-> NoValue, pre |-> Absent,
           saw |-> {}, result |-> Pending]

\* a method of the store is called and runs to its fs.readFile
BeginCall(p, method, a) ==
    /\ pc[p] = "idle"
    /\ pc' = [pc EXCEPT ![p] = "readFile"]
    /\ op' = [op EXCEPT ![p] = method]
    /\ arg' = [arg EXCEPT ![p] = a]
    /\ pre' = [pre EXCEPT ![p] = file]
    /\ last' = NoCall
    /\ UNCHANGED <<file, now, nextId, text, sawSave, succeeded, calcInput, calcOutput>>

\* a call by a client other than the tracker
Begin(p, method, a) == BeginCall(p, method, a) /\ UNCHANGED tracker

CallLoad(p) == Begin(p, "load", NoValue)

CallQuery(p, filters) == Begin(p, "query", filters)

\* the calls of generateId are bounded
CallLog(p, entry, limit) ==
    /\ nextId + Cardinality({q \in Procs : pc[q] = "readFile" /\ op[q] = "log"}) <= limit
    /\ Begin(p, "log", entry)

\* save(store) with the store the last load() returned: it runs to fs.writeFile, or
\* throws, without a read of the file
CallSave(p) ==
    /\ pc[p] = "idle"
    /\ last.op = "load"
    /\ last.result.status = "returned"
    /\ LET prepared == savePrepare(last.result.value, now)
       IN  IF prepared.status = "threw"
           THEN /\ last' = [client |-> p, op |-> "save", arg |-> last.result.value,
                            pre |-> file, saw |-> {}, result |-> prepared]
                /\ UNCHANGED <<pc, op, arg, text, pre>>
           ELSE /\ pc' = [pc EXCEPT ![p] = "writeFile"]
                /\ op' = [op EXCEPT ![p] = "save"]
                /\ arg' = [arg EXCEPT ![p] = last.result.value]
                /\ text' = [text EXCEPT ![p] = prepared.value]
                /\ pre' = [pre EXCEPT ![p] = file]
                /\ last' = NoCall
    /\ UNCHANGED <<file, now, nextId, sawSave, succeeded, calcVars>>

\* the call of p settles with result
Finish(p, result) ==
    /\ pc' = [pc EXCEPT ![p] = "idle"]
    /\ op' = [op EXCEPT ![p] = "none"]
    /\ arg' = [arg EXCEPT ![p] = NoValue]
    /\ text' = [text EXCEPT ![p] = NoValue]
    /\ pre' = [pre EXCEPT ![p] = Absent]
    /\ last' = [client |-> p, op |-> op[p], arg |-> arg[p], pre |-> pre[p],
                saw |-> sawSave[p], result |-> result]

\* fs.readFile settles and the method runs on to its return or to fs.writeFile
ReadFile(p) ==
    /\ pc[p] = "readFile"
    /\ LET loaded == load(file, now)
       IN  CASE op[p] = "load" ->
                  /\ Finish(p, loaded)
                  /\ UNCHANGED nextId
             [] op[p] = "query" ->
                  /\ Finish(p, query(loaded, arg[p]))
                  /\ UNCHANGED nextId
             [] op[p] = "log" ->
                  LET prepared == logPrepare(loaded, arg[p], generateId, now)
                  IN  /\ nextId' = IF loaded.status = "threw" THEN nextId ELSE nextId + 1
                      /\ IF prepared.status = "threw"
                         THEN Finish(p, prepared)
                         ELSE /\ pc' = [pc EXCEPT ![p] = "writeFile"]
                              /\ text' = [text EXCEPT ![p] = prepared.value]
                              /\ UNCHANGED <<op, arg, pre, last>>
    /\ file' = AfterLoad(file, now)
    /\ UNCHANGED <<now, sawSave, succeeded, calcVars>>

\* fs.writeFile replaces the document
WriteFile(p) ==
    /\ pc[p] = "writeFile"
    /\ file' = ReplaceFile(file, text[p])
    /\ Finish(p, Returned(NoValue))
    /\ succeeded' = IF op[p] = "log" THEN succeeded + 1 ELSE succeeded
    /\ sawSave' = [q \in Procs |->
                     IF q = p THEN {}
                     ELSE IF pc[q] = "writeFile" THEN sawSave[q] \cup {LastId(text[p])}
                     ELSE sawSave[q]]
    /\ UNCHANGED <<now, nextId, calcVars>>

\* fs.writeFile is rejected by the medium
WriteFileFails(p) ==
    /\ pc[p] = "writeFile"
    /\ \E error \in WriteErrors :
          /\ file' \in WriteResidue(file, error)
          /\ Finish(p, Threw(error))
    /\ sawSave' = [sawSave EXCEPT ![p] = {}]
    /\ UNCHANGED <<now, nextId, succeeded, calcVars>>

Tick ==
    /\ now < MaxClock
    /\ now' = now + 1
    /\ UNCHANGED <<file, nextId, pc, op, arg, text, pre, last, sawSave, succeeded,
                   calcVars>>

-----------------------------------------------------------------------------
(* Specifications *)

\* new OpencodeUsageTracker(): no task, no call under way, nothing called yet
NewTracker ==
    [currentTask |-> NoValue, call |-> "none", befores |-> 0, aftersPending |-> 0,
     aftersIdle |-> 0, rejected |-> 0, done |-> "none"]

InitClients ==
    /\ tracker = NewTracker
    /\ now = 0
    /\ nextId = 1
    /\ pc = [p \in Procs |-> "idle"]
    /\ op = [p \in Procs |-> "none"]
    /\ arg = [p \in Procs |-> NoValue]
    /\ text = [p \in Procs |-> NoValue]
    /\ pre = [p \in Procs |-> Absent]
    /\ last = NoCall
    /\ sawSave = [p \in Procs |-> {}]
    /\ succeeded = 0

Init ==
    /\ file \in {Absent} \cup ForeignFiles
    /\ InitClients
    /\ calcInput = <<>>
    /\ calcOutput = Pending

\* clients that call the store whenever they like
Next ==
    \/ Tick
    \/ \E p \in Procs : CallLoad(p)
    \/ \E p \in Procs, filters \in FewFilters : CallQuery(p, filters)
    \/ \E p \in Procs, entry \in CallerEntries : CallLog(p, entry, MaxOverlapping)
    \/ \E p \in Procs : ReadFile(p)
    \/ \E p \in Procs : WriteFile(p)
    \/ \E p \in Procs : WriteFileFails(p)

Spec == Init /\ [][Next]_vars

AllIdle == \A q \in Procs : pc[q] = "idle"

\* a single writer: no call begins while another is running
NextSingle ==
    \/ Tick
    \/ \E p \in Procs : AllIdle /\ CallLoad(p)
    \/ \E p \in Procs, filters \in FewFilters : AllIdle /\ CallQuery(p, filters)
    \/ \E p \in Procs, entry \in CallerEntries : AllIdle /\ CallLog(p, entry, MaxAppends)
    \/ \E p \in Procs : AllIdle /\ CallSave(p)
    \/ \E p \in Procs : ReadFile(p)
    \/ \E p \in Procs : WriteFile(p)
    \/ \E p \in Procs : WriteFileFails(p)

SpecSingle == Init /\ [][NextSingle]_vars

\* stored entries: stamped by log at an instant of times, written by save and read
\* back by load; ids are fresh and timestamps never decrease in append order
RECURSIVE StoredSequences(_, _)
StoredSequences(len, times) ==
    IF len = 0 THEN {<<>>}
    ELSE LET shorter == StoredSequences(len - 1, times)
         IN  shorter \cup UNION
             {{Append(s, StringifyEntry(StampEntry(e, Len(s) + 1, t))) :
                  e \in CallerEntries,
                  t \in {u \in times : s = <<>> \/ ParseDate(s[Len(s)].timestamp) <= u}} :
              s \in {x \in shorter : Len(x) = len - 1}}

\* the collection save writes after the last of entries was appended
StoredFile(entries) ==
    IF entries = <<>> THEN Absent
    ELSE Stringify(TouchStore([entries |-> entries, metadata |-> DefaultStore(0).metadata],
                              ParseDate(entries[Len(entries)].timestamp)))

\* a store that earlier appends filled, or a foreign document; then queries only
InitQuery ==
    /\ file \in {StoredFile(s) : s \in StoredSequences(MaxStored, 0 .. MaxClock)}
                \cup ForeignFiles
    /\ InitClients
    /\ calcInput = <<>>
    /\ calcOutput = Pending

NextQuery ==
    \/ \E p \in Procs, filters \in AllFilters : AllIdle /\ CallQuery(p, filters)
    \/ \E p \in Procs : ReadFile(p)

SpecQuery == InitQuery /\ [][NextQuery]_vars

\* the instants the entries handed to the analytics functions are stamped with
CalcTimes == {0, 1, MsPerHour}

CalcInputs == StoredSequences(MaxCalcLen, CalcTimes)

InitCalc ==
    /\ file = Absent
    /\ InitClients
    /\ calcInput \in CalcInputs
    /\ calcOutput = Pending

Calculate ==
    /\ calcOutput = Pending
    /\ calcOutput' = calculate(calcInput)
    /\ UNCHANGED <<storeVars, calcInput, tracker>>

NextCalc == Calculate

\* the analytics functions applied to entry sequences read from a store
SpecCalc == InitCalc /\ [][NextCalc]_vars

AnalyzePatterns ==
    /\ calcOutput = Pending
    /\ calcOutput' = analyzePatterns(calcInput)
    /\ UNCHANGED <<storeVars, calcInput, tracker>>

NextAnalyze == AnalyzePatterns

SpecAnalyze == InitCalc /\ [][NextAnalyze]_vars

\* the instants the entries of a day's report are stamped with: the first and the
\* last instant of a UTC day and the first of the next
DayTimes == {0, MsPerDay - 1, MsPerDay}

\* the dates passed to generateDailySummary
Dates == {12 * MsPerHour, MsPerDay}

\* local time is UTC, or one hour ahead of it
Zones == {0, MsPerHour}

InitSummary ==
    /\ file \in {StoredFile(s) : s \in StoredSequences(MaxStored, DayTimes)}
    /\ InitClients
    /\ calcInput \in [date : Dates, tz : Zones]
    /\ calcOutput = Pending

\* generateDailySummary awaits query, which reads the file once, and then computes
GenerateDailySummary ==
    /\ calcOutput = Pending
    /\ calcOutput' = generateDailySummary(file, now, calcInput.date, calcInput.tz)
    /\ UNCHANGED <<storeVars, calcInput, tracker>>

NextSummary == GenerateDailySummary

SpecSummary == InitSummary /\ [][NextSummary]_vars

\* the analytics functions that take entry sequences
SequenceAnalytics == {"calculate", "analyzePatterns", "compare"}

\* an analytics function runs on the entries the last query returned
Analyse(fn) ==
    /\ calcOutput = Pending
    /\ last.op = "query"
    /\ last.result.status = "returned"
    /\ calcOutput' = CASE fn = "calculate" -> calculate(last.result.value)
                       [] fn = "analyzePatterns" -> analyzePatterns(last.result.value)
                       [] fn = "compare" -> compare(last.result.value, last.result.value)
    /\ UNCHANGED <<storeVars, calcInput, tracker>>

\* a store that earlier appends filled, or a foreign document; then readers only
InitReaders ==
    /\ file \in {StoredFile(s) : s \in StoredSequences(MaxCalcLen, {0, 1})}
                \cup ForeignFiles
    /\ InitClients
    /\ calcInput \in [date : Dates, tz : {0}]
    /\ calcOutput = Pending

\* clients that read whenever they like, and no writer
NextReaders ==
    \/ Tick
    \/ \E p \in Procs : CallLoad(p)
    \/ \E p \in Procs, filters \in FewFilters : CallQuery(p, filters)
    \/ \E p \in Procs : ReadFile(p)
    \/ \E fn \in SequenceAnalytics : Analyse(fn)
    \/ GenerateDailySummary

SpecReaders == InitReaders /\ [][NextReaders]_vars

\* the names of the skills of a day, in the order in which they first come
SkillsOfDay == <<"build", "run-tests", "review-code", "find-files", "fetch-docs",
                 "edit-files", "e2e-testing">>

\* the entry a caller passes for the k-th skill; for k = 0, a command
EntryOfSkill(k) ==
    IF k = 0 THEN EntryCommand
    ELSE [EntryBuild EXCEPT !.invocation.name = SkillsOfDay[k]]

\* the most a run names: 0 when it has no skill
Newest(run) == IF run = <<>> THEN 0 ELSE Max({run[i] : i \in DOMAIN run})

\* what callers invoked on a day, by number: each skill takes the next number when it
\* first comes
RECURSIVE Runs(_)
Runs(len) ==
    IF len = 0 THEN {<<>>}
    ELSE LET shorter == Runs(len - 1)
         IN  shorter \cup UNION
             {{Append(run, k) : k \in 0 .. Min({Newest(run) + 1, Len(SkillsOfDay)})} :
              run \in {x \in shorter : Len(x) = len - 1}}

\* the entries log stored for a run, all at the first instant of the day
StoredRun(run) ==
    [i \in DOMAIN run |-> StringifyEntry(StampEntry(EntryOfSkill(run[i]), i, 0))]

InitTopSkills ==
    /\ file \in {StoredFile(StoredRun(run)) : run \in Runs(MaxDayEntries)}
    /\ InitClients
    /\ calcInput = [date |-> 12 * MsPerHour, tz |-> 0]
    /\ calcOutput = Pending

SpecTopSkills == InitTopSkills /\ [][NextSummary]_vars

\* entries around the thresholds of the insights: a skill that succeeds, a skill that
\* fails 3 ms short of 30 s, a command that succeeds 3 ms past 30 s
EntryAtThreshold == [EntryBuild EXCEPT !.outcome.duration = 30000]

EntryBelowThreshold ==
    [EntryBuild EXCEPT !.outcome.success = FALSE, !.outcome.duration = 29997]

EntryAboveThreshold ==
    [EntryCommand EXCEPT !.outcome.success = TRUE, !.outcome.duration = 30003]

ThresholdEntries == {EntryAtThreshold, EntryBelowThreshold, EntryAboveThreshold}

\* the instants of the entries of a day whose summary is at the thresholds
ThresholdTimes == {0, MsPerHour, 2 * MsPerHour}

\* stored entries as StoredSequences builds them, of the entries around the thresholds
RECURSIVE ThresholdSequences(_)
ThresholdSequences(len) ==
    IF len = 0 THEN {<<>>}
    ELSE LET shorter == ThresholdSequences(len - 1)
         IN  shorter \cup UNION
             {{Append(s, StringifyEntry(StampEntry(e, Len(s) + 1, t))) :
                  e \in ThresholdEntries,
                  t \in {u \in ThresholdTimes :
                            s = <<>> \/ ParseDate(s[Len(s)].timestamp) <= u}} :
              s \in {x \in shorter : Len(x) = len - 1}}

InitInsights ==
    /\ file \in {StoredFile(s) : s \in ThresholdSequences(MaxInsightEntries)}
    /\ InitClients
    /\ calcInput = [date |-> 12 * MsPerHour, tz |-> 0]
    /\ calcOutput = Pending

SpecInsights == InitInsights /\ [][NextSummary]_vars

\* 'usage benchmark <days>': the days given, or none
BaselineDays == {1, DefaultBaselineDays}

\* a store that earlier appends filled; the clock stands at the first append or later
InitBenchmark ==
    /\ file \in {StoredFile(s) : s \in StoredSequences(MaxCalcLen, 0 .. MaxClock)}
    /\ InitClients
    /\ calcInput \in BaselineDays
    /\ calcOutput = Pending

\* main reads the clock once the entries of the store have been stamped
Benchmark ==
    /\ calcOutput = Pending
    /\ \A i \in DOMAIN load(file, now).value.entries :
           ParseDate(load(file, now).value.entries[i].timestamp) <= now
    /\ calcOutput' = benchmark(file, now, calcInput)
    /\ UNCHANGED <<storeVars, calcInput, tracker>>

NextBenchmark ==
    \/ Tick
    \/ Benchmark

SpecBenchmark == InitBenchmark /\ [][NextBenchmark]_vars

\* the client whose calls of log are the tracker's
TrackerClient == "c1"

TrackerCalls == tracker.befores + tracker.aftersPending + tracker.aftersIdle

\* beforeExecution(skill, task) up to the fs.readFile of its log
BeforeExecution(skill, task) ==
    /\ AllIdle
    /\ tracker.call = "none"
    /\ TrackerCalls < MaxTrackerCalls
    /\ tracker' = [tracker EXCEPT !.currentTask = task, !.call = "before",
                                  !.befores = @ + 1, !.done = "none"]
    /\ BeginCall(TrackerClient, "log", BeforeEntry(skill, task))

\* afterExecution(skill, success, duration, tokensUsed): its return when currentTask
\* is falsy, else its run up to the fs.readFile of its log
AfterExecution(skill, success, duration, tokensUsed) ==
    /\ AllIdle
    /\ tracker.call = "none"
    /\ TrackerCalls < MaxTrackerCalls
    /\ IF ~TruthyTask(tracker.currentTask)
       THEN /\ tracker' = [tracker EXCEPT
                              !.aftersPending = IF tracker.currentTask = NoValue THEN @ ELSE @ + 1,
                              !.aftersIdle = IF tracker.currentTask = NoValue THEN @ + 1 ELSE @,
                              !.done = "after"]
            /\ UNCHANGED <<storeVars, calcInput, calcOutput>>
       ELSE /\ tracker' = [tracker EXCEPT !.call = "after", !.aftersPending = @ + 1,
                                          !.done = "none"]
            /\ BeginCall(TrackerClient, "log",
                         AfterEntry(skill, tracker.currentTask, success, duration, tokensUsed))

\* the log the tracker awaits has settled: afterExecution clears currentTask when it
\* returned, and either method is done
TrackerResumes ==
    /\ tracker.call # "none"
    /\ pc[TrackerClient] = "idle"
    /\ last.op = "log"
    /\ tracker' = [tracker EXCEPT
                      !.call = "none",
                      !.done = tracker.call,
                      !.rejected = IF last.result.status = "returned" THEN @ ELSE @ + 1,
                      !.currentTask = IF tracker.call = "after" /\ last.result.status = "returned"
                                      THEN NoValue ELSE @]
    /\ UNCHANGED <<storeVars, calcInput, calcOutput>>

\* what the hook passes to the tracker
TrackedSkills == {"run-tests"}

TrackedTasks == {"t1", ""}

InitTracker ==
    /\ file = Absent
    /\ InitClients
    /\ calcInput = <<>>
    /\ calcOutput = Pending

\* one tracker, its calls one after another, on a store of its own
NextTracker ==
    \/ Tick
    \/ \E skill \in TrackedSkills, task \in TrackedTasks : BeforeExecution(skill, task)
    \/ \E skill \in TrackedSkills, tokensUsed \in {Undefined, 1500} :
          AfterExecution(skill, TRUE, 1000, tokensUsed)
    \/ ReadFile(TrackerClient)
    \/ WriteFile(TrackerClient)
    \/ WriteFileFails(TrackerClient)
    \/ TrackerResumes

SpecTracker == InitTracker /\ [][NextTracker]_vars

\* the two sequences handed to compare
InitCompare ==
    /\ file = Absent
    /\ InitClients
    /\ calcInput \in [baseline : CalcInputs, current : CalcInputs]
    /\ calcOutput = Pending

Compare ==
    /\ calcOutput = Pending
    /\ calcOutput' = compare(calcInput.baseline, calcInput.current)
    /\ UNCHANGED <<storeVars, calcInput, tracker>>

NextCompare == Compare

SpecCompare == InitCompare /\ [][NextCompare]_vars

-----------------------------------------------------------------------------
(* The log store: claims *)

ValidCollection(f) == f.kind = "json" /\ Has(f.json, "entries") /\ Has(f.json, "metadata")

\* the entries load() returns on file f
Entries(f) == load(f, now).value.entries

Ids(entries) == {entries[i].id : i \in DOMAIN entries}

LogReturned == last.op = "log" /\ last.result.status = "returned"

\* x has the fields of e with the values of e, id and timestamp aside
SameButIdAndTimestamp(x, e) ==
    /\ DOMAIN x = DOMAIN e
    /\ x.agent = e.agent
    /\ x.invocation = e.invocation
    /\ x.context = e.context
    /\ x.outcome.success = e.outcome.success
    /\ x.outcome.duration = e.outcome.duration
    /\ Get(x.outcome, "tokensUsed") = Get(e.outcome, "tokensUsed")

\* C1: under a single writer, right after a successful log(e), load() returns the
\* entries that load() returned before the call, unchanged and in the same order,
\* followed by one entry that equals e in every field but id and timestamp
C1_AppendThenLoad ==
    LogReturned =>
        /\ load(file, now).status = "returned"
        /\ Has(load(file, now).value, "entries")
        /\ Len(Entries(file)) = Len(Entries(last.pre)) + 1
        /\ \A i \in 1 .. Len(Entries(last.pre)) : Entries(file)[i] = Entries(last.pre)[i]
        /\ SameButIdAndTimestamp(Entries(file)[Len(Entries(file))], last.arg)

\* a third entry, one whose tokensUsed the caller left undefined, has been appended
C1_Witness ==
    /\ LogReturned
    /\ last.arg = EntryCommand
    /\ Len(Entries(file)) = 3

\* C2: in every state the ids of the persisted entries differ from one another, and
\* each is an id generateId handed out, never the id the caller left in the entry
C2_UniqueIds ==
    (file.kind = "json" /\ Has(file.json, "entries")) =>
        /\ \A i, j \in DOMAIN file.json.entries :
              i # j => file.json.entries[i].id # file.json.entries[j].id
        /\ Ids(file.json.entries) \subseteq 1 .. (nextId - 1)
        /\ \A e \in CallerEntries : e.id \notin Ids(file.json.entries)

\* two entries are persisted, one of them passed in with the id -7
C2_Witness ==
    /\ file.kind = "json"
    /\ Has(file.json, "entries")
    /\ Len(file.json.entries) >= 2
    /\ \E i \in DOMAIN file.json.entries : file.json.entries[i].invocation.type = "rule"

\* C3: when another append saved between the load and the save of an append, the
\* later save meets no error of the store's own, and once it has returned the file
\* holds its entry and none of the entries saved in between, so that fewer entries
\* are persisted than appends have succeeded
C3_LostUpdate ==
    (last.op = "log" /\ last.saw # {}) =>
        /\ last.result.status = "threw" => last.result.error \in WriteErrors
        /\ last.result.status = "returned" =>
              /\ file.kind = "json"
              /\ LastId(file) \notin last.saw
              /\ Ids(file.json.entries) \cap last.saw = {}
              /\ Len(file.json.entries) < succeeded

\* an append has returned after another one saved between its load and its save
C3_Witness == LogReturned /\ last.saw # {} /\ succeeded = 2

\* what the claims ask of an entry that passes the filters
Satisfies(e, filters) ==
    /\ Has(filters, "agent") => e.agent = filters.agent.str
    /\ Has(filters, "category") => e.invocation.category = filters.category.str
    /\ Has(filters, "startTime") => ParseDate(e.timestamp) >= filters.startTime.time
    /\ Has(filters, "endTime") => ParseDate(e.timestamp) <= filters.endTime.time

Kept(entries, filters) == {i \in DOMAIN entries : Satisfies(entries[i], filters)}

\* the k-th smallest member of the set of indices S
Nth(S, k) == CHOOSE i \in S : Cardinality({j \in S : j <= i}) = k

QueryOnCollection == last.op = "query" /\ ValidCollection(last.pre)

PassesOthers(e, filters) ==
    /\ Has(filters, "agent") => e.agent = filters.agent.str
    /\ Has(filters, "category") => e.invocation.category = filters.category.str

\* C5: of the stored entries that pass the other filters, a query returns the one
\* stamped exactly startTime and the one stamped exactly endTime (each when within
\* the other bound), and returns none stamped before startTime or after endTime
C5_InclusiveBounds ==
    (QueryOnCollection /\ last.result.status = "returned") =>
        \A i \in DOMAIN last.pre.json.entries :
            LET e == last.pre.json.entries[i]
                ts == ParseDate(e.timestamp)
                f == last.arg
                returned == e.id \in Ids(last.result.value)
            IN  PassesOthers(e, f) =>
                  /\ (Has(f, "startTime") /\ ts = f.startTime.time
                        /\ (Has(f, "endTime") => ts <= f.endTime.time)) => returned
                  /\ (Has(f, "endTime") /\ ts = f.endTime.time
                        /\ (Has(f, "startTime") => ts >= f.startTime.time)) => returned
                  /\ (Has(f, "startTime") /\ ts < f.startTime.time) => ~returned
                  /\ (Has(f, "endTime") /\ ts > f.endTime.time) => ~returned

\* a query from 1 to 2 over entries stamped 0, 1 and 2 returned the last two
C5_Witness ==
    /\ QueryOnCollection
    /\ DOMAIN last.arg = {"startTime", "endTime"}
    /\ last.arg.startTime.time = 1
    /\ last.arg.endTime.time = 2
    /\ Len(last.pre.json.entries) = 3
    /\ \A i \in 1 .. 3 : ParseDate(last.pre.json.entries[i].timestamp) = i - 1
    /\ Len(last.result.value) = 2

\* C6: filtering the result of a query again with the same filters leaves it unchanged
C6_QueryIdempotent ==
    (QueryOnCollection /\ last.result.status = "returned") =>
        FilterEntries(last.result.value, last.arg) = last.result.value

\* a query by agent returned two of three stored entries
C6_Witness ==
    /\ QueryOnCollection
    /\ DOMAIN last.arg = {"agent"}
    /\ Len(last.pre.json.entries) = 3
    /\ Len(last.result.value) = 2

\* C7, first half: load() on a missing file returns the empty collection with the
\* default metadata and leaves the file missing
C7_LoadOnAbsent ==
    (last.op = "load" /\ last.pre = Absent) =>
        /\ last.result = Returned(DefaultStore(now))
           \/ \E t \in 0 .. now : last.result = Returned(DefaultStore(t))
        /\ file = Absent

\* C7: load() on a missing file returns an empty collection with default metadata,
\* raises nothing and creates no file; the file comes into existence in the step in
\* which an append succeeds
C7_CreatedOnFirstAppend ==
    /\ [](C7_LoadOnAbsent)
    /\ [][(file = Absent /\ file' # Absent) => succeeded' = succeeded + 1]_vars

\* C8: load, query and log on a document that is not a valid collection fail and
\* leave the document as it was
C8_CorruptFails ==
    (last.op \in {"load", "query", "log"} /\ last.pre # Absent /\ ~ValidCollection(last.pre)) =>
        /\ last.result.status = "threw"
        /\ file = last.pre

\* C9: when fs.writeFile is rejected during an append, the append fails with the
\* write error and load() still returns what it returned before the append
C9_FailedWriteKeepsStore ==
    (last.op = "log" /\ last.result.status = "threw" /\ ValidCollection(last.pre)) =>
        /\ last.result.error \in WriteErrors
        /\ load(file, now) = load(last.pre, now)

HasEntries(f) == f.kind = "json" /\ Has(f.json, "entries")

\* the time the entries of f are stamped with are in non-decreasing order
NonDecreasing(f) ==
    \A i, j \in DOMAIN f.json.entries :
        (i <= j) =>
            ParseDate(f.json.entries[i].timestamp) <= ParseDate(f.json.entries[j].timestamp)

\* client p goes on to fs.writeFile in this step
ReachesWrite(p) == pc[p] # "writeFile" /\ pc'[p] = "writeFile"

\* C22: under a single writer the timestamps of the persisted entries never decrease
\* in append order, and the entry a log is about to save is stamped with the clock
\* value of that step, whatever timestamp the caller left in it
C22_TimestampsFromClock ==
    /\ [](HasEntries(file) => NonDecreasing(file))
    /\ [][\A p \in Procs :
            (ReachesWrite(p) /\ op'[p] = "log") =>
                text'[p].json.entries[Len(text'[p].json.entries)].timestamp = ToISOString(now)]_vars

\* an entry the caller had stamped with the last instant was appended at an earlier
\* one, after an entry of an instant before that
C22_Witness ==
    /\ LogReturned
    /\ last.arg = EntryCommand
    /\ Len(Entries(file)) = 2
    /\ ParseDate(Entries(file)[1].timestamp) < ParseDate(Entries(file)[2].timestamp)
    /\ ParseDate(Entries(file)[2].timestamp) < ParseDate(EntryCommand.timestamp)

\* a write of log or save is under way
Writing == \E p \in Procs : pc[p] = "writeFile" /\ op[p] \in {"log", "save"}

\* C23: load, query, calculate, analyzePatterns, compare and generateDailySummary
\* leave the persisted document as it is, the file changes only in a write of log or
\* save, and a query that ran while other reads were under way returns what a query
\* by itself returns on the persisted document
C23_ReadersLeaveFile ==
    /\ [][(file' # file) => Writing]_vars
    /\ []((last.op = "query") => (last.result = query(load(file, now), last.arg)))

\* a query returned an entry while the query of the other client was under way, and
\* an analytics function has run
C23_Witness ==
    /\ last.op = "query"
    /\ last.result.status = "returned"
    /\ last.result.value # <<>>
    /\ \E q \in Procs : pc[q] = "readFile" /\ op[q] = "query" /\ q # last.client
    /\ calcOutput.status = "returned"
    /\ ValidCollection(file)

HasMetadata(f) == f.kind = "json" /\ Has(f.json, "metadata")

LastUpdated(f) == ParseDate(f.json.metadata.lastUpdated)

\* C28: a log or a save that is about to write has set lastUpdated to the clock value
\* of that step, and a successful write persists it; under a single writer
\* lastUpdated is no earlier than the timestamp of any persisted entry and never
\* decreases from one persisted document to the next
C28_LastUpdated ==
    /\ []((HasEntries(file) /\ HasMetadata(file)) =>
            \A i \in DOMAIN file.json.entries :
                ParseDate(file.json.entries[i].timestamp) <= LastUpdated(file))
    /\ [][/\ \A p \in Procs :
              ReachesWrite(p) => text'[p].json.metadata.lastUpdated = ToISOString(now)
          /\ \A p \in Procs :
              (pc[p] = "writeFile" /\ last'.client = p /\ last'.result.status = "returned")
                  => (file' = text[p])
          /\ (HasMetadata(file) /\ HasMetadata(file'))
                  => (LastUpdated(file) <= LastUpdated(file'))
         ]_vars

\* an explicit save of a loaded store returned after the clock had moved on from the
\* append of its entry
C28_Witness ==
    /\ last.op = "save"
    /\ last.result.status = "returned"
    /\ HasEntries(file)
    /\ Len(file.json.entries) = 1
    /\ ParseDate(file.json.entries[1].timestamp) < LastUpdated(file)
    /\ LastUpdated(file) = now

-----------------------------------------------------------------------------
(* The metrics calculator: claims *)

\* C10: calculate on the empty sequence signals ComputationUndefined
C10_EmptySignalsUndefined ==
    (calcInput = <<>> /\ calcOutput.status # "pending") =>
        /\ calcOutput.status = "threw"
        /\ calcOutput.error = "ComputationUndefined"

CalcDone == calcOutput.status # "pending"

CalcReturned == calcOutput.status = "returned"

SameInstant(metrics) ==
    \A i, j \in DOMAIN metrics : metrics[i].timestamp = metrics[j].timestamp

\* C11: calculate on a non-empty input whose timestamps are all equal signals
\* ComputationUndefined, and no input makes it return an invocationsPerHour that is
\* not finite
C11_ZeroSpanSignalled ==
    CalcDone =>
        /\ (calcInput # <<>> /\ SameInstant(calcInput)) =>
              /\ calcOutput.status = "threw"
              /\ calcOutput.error = "ComputationUndefined"
        /\ CalcReturned => IsFinite(calcOutput.value.invocationsPerHour)

SuccessCount(metrics) == Cardinality({i \in DOMAIN metrics : metrics[i].outcome.success = TRUE})

\* C12: on a non-empty input calculate returns successRate = 100 * successes / total
\* and failureRate = 100 - successRate; the two add up to 100 and lie in 0 .. 100
C12_RatesSumTo100 ==
    (CalcDone /\ calcInput # <<>>) =>
        /\ CalcReturned
        /\ LET m == calcOutput.value
               hundred == Num(100)
           IN  /\ m.successRate = Frac(100 * SuccessCount(calcInput), Len(calcInput))
               /\ m.failureRate = NumSub(hundred, m.successRate)
               /\ NumAdd(m.successRate, m.failureRate) = hundred
               /\ ~NumLess(m.successRate, Num(0)) /\ ~NumLess(hundred, m.successRate)
               /\ ~NumLess(m.failureRate, Num(0)) /\ ~NumLess(hundred, m.failureRate)
               /\ IsFinite(m.successRate) /\ IsFinite(m.failureRate)

\* a rule application that took no time and failed is in the input, next to a success
C12_Witness ==
    /\ CalcReturned
    /\ Len(calcInput) = 2
    /\ calcInput[1].invocation.type = "rule"
    /\ calcOutput.value.successRate = Num(50)
    /\ calcOutput.value.failureRate = Num(50)

RECURSIVE DurationOfFirst(_, _)
DurationOfFirst(metrics, n) ==
    IF n = 0 THEN 0 ELSE DurationOfFirst(metrics, n - 1) + metrics[n].outcome.duration

-----------------------------------------------------------------------------
(* The benchmark comparator: claims *)

Deltas(r) ==
    {r.improvements.duration, r.improvements.successRate, r.improvements.tokensPerTask,
     r.percentImprovement.duration, r.percentImprovement.successRate,
     r.percentImprovement.tokensPerTask}

\* C14: compare of a non-empty sequence with itself returns 0 in the three fields of
\* improvements and the three fields of percentImprovement
C14_SelfCompareZero ==
    (CalcDone /\ calcInput.baseline = calcInput.current /\ calcInput.baseline # <<>>) =>
        /\ CalcReturned
        /\ Deltas(calcOutput.value) = {Num(0)}

\* C15: compare with an empty baseline or an empty current sequence fails with
\* ComputationUndefined and returns no comparison
C15_EmptyCompareFails ==
    (CalcDone /\ (calcInput.baseline = <<>> \/ calcInput.current = <<>>)) =>
        /\ calcOutput.status = "threw"
        /\ calcOutput.error = "ComputationUndefined"

\* 100 * delta / base
PercentOf(delta, base) == NumDiv(NumMul(Num(100), delta), base)

\* C16: for non-empty sequences compare returns improvements = (baseline average
\* duration - current, current success rate - baseline, baseline tokens per task -
\* current), percentImprovement.successRate = improvements.successRate, and the other
\* two percentages = 100 * the improvement / the baseline value
C16_Deltas ==
    (CalcDone /\ calcInput.baseline # <<>> /\ calcInput.current # <<>>) =>
        /\ CalcReturned
        /\ LET r == calcOutput.value
               b == calculate(calcInput.baseline).value
               c == calculate(calcInput.current).value
           IN  /\ r.baseline = b
               /\ r.current = c
               /\ r.improvements.duration = NumSub(b.averageDuration, c.averageDuration)
               /\ r.improvements.successRate = NumSub(c.successRate, b.successRate)
               /\ r.improvements.tokensPerTask = NumSub(b.tokensPerTask, c.tokensPerTask)
               /\ r.percentImprovement.successRate = r.improvements.successRate
               /\ r.percentImprovement.duration =
                      PercentOf(r.improvements.duration, b.averageDuration)
               /\ r.percentImprovement.tokensPerTask =
                      PercentOf(r.improvements.tokensPerTask, b.tokensPerTask)

\* the current sequence is faster and more often successful than the baseline, and
\* takes twice the tokens per task
C16_Witness ==
    /\ CalcReturned
    /\ Len(calcInput.baseline) = 2
    /\ calcOutput.value.improvements.duration = Num(1000)
    /\ calcOutput.value.percentImprovement.duration = Num(50)
    /\ calcOutput.value.improvements.successRate = Num(50)
    /\ calcOutput.value.percentImprovement.successRate = Num(50)
    /\ calcOutput.value.improvements.tokensPerTask = Num(0 - 750)
    /\ calcOutput.value.percentImprovement.tokensPerTask = Num(0 - 100)

-----------------------------------------------------------------------------
(* The usage analyzer: claims *)

SkillEntries(metrics) == {i \in DOMAIN metrics : metrics[i].invocation.type = "skill"}

SkillNames(metrics) == {metrics[i].invocation.name : i \in SkillEntries(metrics)}

EntriesOfSkill(metrics, name) ==
    {i \in SkillEntries(metrics) : metrics[i].invocation.name = name}

RECURSIVE FrequencyOfFirst(_, _)
FrequencyOfFirst(patterns, n) ==
    IF n = 0 THEN 0 ELSE FrequencyOfFirst(patterns, n - 1) + patterns[n].frequency

\* C17: the frequencies of the patterns analyzePatterns returns add up to the number
\* of entries of type skill, and no pattern stands for a command or a rule
C17_FrequenciesAddUp ==
    CalcDone =>
        /\ CalcReturned
        /\ FrequencyOfFirst(calcOutput.value, Len(calcOutput.value))
              = Cardinality(SkillEntries(calcInput))
        /\ \A k \in DOMAIN calcOutput.value :
              calcOutput.value[k].skill \in SkillNames(calcInput)

\* C18: analyzePatterns returns exactly one pattern for each skill name among the
\* entries of type skill, with the number of those entries as frequency, the mean of
\* their durations as averageDuration and 100 * successes / frequency as successRate
C18_OnePatternPerSkill ==
    CalcDone =>
        /\ CalcReturned
        /\ Len(calcOutput.value) = Cardinality(SkillNames(calcInput))
        /\ \A name \in SkillNames(calcInput) :
              \E k \in DOMAIN calcOutput.value :
                LET pattern == calcOutput.value[k]
                    group == EntriesOfSkill(calcInput, name)
                    durations == [i \in DOMAIN calcInput |->
                                     IF i \in group THEN calcInput[i].outcome.duration ELSE 0]
                    successes == {i \in group : calcInput[i].outcome.success}
                IN  /\ pattern.skill = name
                    /\ pattern.frequency = Cardinality(group)
                    /\ pattern.averageDuration = Frac(Sum(durations), Cardinality(group))
                    /\ pattern.successRate = Frac(100 * Cardinality(successes), Cardinality(group))

\* the place in metrics of the first skill entry called name
FirstOf(metrics, name) ==
    CHOOSE i \in EntriesOfSkill(metrics, name) : \A j \in EntriesOfSkill(metrics, name) : i <= j

PatternSkills(patterns) == {patterns[k].skill : k \in DOMAIN patterns}

\* C24: analyzePatterns returns the patterns of the skills of its input by frequency,
\* highest first, and patterns of equal frequency in the order in which the first
\* entries of their skills come in the input
C24_OrderedByFrequency ==
    CalcDone =>
        /\ CalcReturned
        /\ PatternSkills(calcOutput.value) = SkillNames(calcInput)
        /\ \A k, l \in DOMAIN calcOutput.value :
              (k < l) =>
                  /\ calcOutput.value[k].frequency >= calcOutput.value[l].frequency
                  /\ (calcOutput.value[k].frequency = calcOutput.value[l].frequency) =>
                        (FirstOf(calcInput, calcOutput.value[k].skill)
                            < FirstOf(calcInput, calcOutput.value[l].skill))

\* the bucket of an hour of the day
Bucket(hour) ==
    CASE hour \in 5 .. 11 -> "morning"
      [] hour \in 12 .. 16 -> "afternoon"
      [] hour \in 17 .. 20 -> "evening"
      [] hour \in (21 .. 23) \cup (0 .. 4) -> "night"

\* C25: the pattern of a skill has the bucket of the hour of the first entry of that
\* skill in the input as its timeOfDay, and getTimeOfDay gives every hour 0 .. 23 its
\* bucket
C25_TimeOfDayOfFirst ==
    CalcDone =>
        /\ CalcReturned
        /\ \A hour \in 0 .. 23 : getTimeOfDay(hour) = Bucket(hour)
        /\ \A name \in SkillNames(calcInput) :
              \E k \in DOMAIN calcOutput.value :
                  /\ calcOutput.value[k].skill = name
                  /\ calcOutput.value[k].timeOfDay =
                        Bucket(calcInput[FirstOf(calcInput, name)].timestamp.hour)

-----------------------------------------------------------------------------
(* The report generator: claims *)

\* the first instant of the local day that holds date: the local midnight, of the
\* day before, the same day or the day after in UTC, that date follows by less than 24 h
FirstInstant(date, tz) ==
    CHOOSE start \in {k * MsPerDay - tz : k \in (date \div MsPerDay - 1) .. (date \div MsPerDay + 1)} :
        start <= date /\ date < start + MsPerDay

StoredEntries == IF file = Absent THEN <<>> ELSE file.json.entries

\* the stored entries stamped from the first to the last instant of the day
InDay(date, tz) ==
    SelectSeq(StoredEntries,
              LAMBDA e : /\ ParseDate(e.timestamp) >= FirstInstant(date, tz)
                         /\ ParseDate(e.timestamp) <= FirstInstant(date, tz) + MsPerDay - 1)

\* C19: generateDailySummary(date) gives what the stored entries stamped from the
\* first instant of the day of date to its last (24 h - 1 ms later), both included,
\* give by themselves, and counts exactly those entries
C19_DayWindow ==
    CalcDone =>
        LET inDay == InDay(calcInput.date, calcInput.tz)
        IN  /\ calcOutput = SummaryOf(inDay, FirstInstant(calcInput.date, calcInput.tz))
            /\ CalcReturned => calcOutput.value.totalInvocations = Len(inDay)

\* of three entries, stamped at the first and the last instant of the day and at the
\* first instant of the next, the summary of the day counts the first two
C19_Witness ==
    /\ CalcReturned
    /\ calcInput = [date |-> 12 * MsPerHour, tz |-> 0]
    /\ Len(StoredEntries) = 3
    /\ ParseDate(StoredEntries[1].timestamp) = 0
    /\ ParseDate(StoredEntries[2].timestamp) = MsPerDay - 1
    /\ ParseDate(StoredEntries[3].timestamp) = MsPerDay
    /\ calcOutput.value.totalInvocations = 2

InsightKinds(summary) == {summary.insights[i].kind : i \in DOMAIN summary.insights}

\* C20: a summary holds a positive insight when the success rate is at least 90, a
\* fast insight when the average duration is below 5000 ms and a high insight when
\* the invocations per hour exceed 10
C20_PositiveInsights ==
    CalcReturned =>
        LET summary == calcOutput.value
            day == calculate(InDay(calcInput.date, calcInput.tz)).value
        IN  /\ ~NumLess(summary.successRate, Num(90)) =>
                  "Excellent success rate" \in InsightKinds(summary)
            /\ NumLess(summary.averageDuration, Num(5000)) =>
                  "Fast average duration" \in InsightKinds(summary)
            /\ NumLess(Num(10), day.invocationsPerHour) =>
                  "High invocations per hour" \in InsightKinds(summary)

MostUsed(summary) ==
    {i \in DOMAIN summary.insights : summary.insights[i].kind = "Most used skill"}

\* C21: when the day has entries and none of type skill, generateDailySummary returns
\* a summary without a most-used-skill insight; when it has a skill entry, the summary
\* holds exactly one, as its last insight, naming the first of topSkills and its count
C21_MostUsedSkill ==
    CalcDone =>
        LET inDay == InDay(calcInput.date, calcInput.tz)
        IN  /\ (inDay # <<>> /\ SkillEntries(inDay) = {}) =>
                  /\ CalcReturned
                  /\ MostUsed(calcOutput.value) = {}
            /\ SkillEntries(inDay) # {} =>
                  /\ CalcReturned
                  /\ MostUsed(calcOutput.value) = {Len(calcOutput.value.insights)}
                  /\ LET item == calcOutput.value.insights[Len(calcOutput.value.insights)]
                     IN  /\ item.skill = calcOutput.value.topSkills[1].skill
                         /\ item.count = calcOutput.value.topSkills[1].count

CountOf(metrics, name) == Cardinality(EntriesOfSkill(metrics, name))

\* C26: topSkills of a summary holds at most 5 items, one for each of as many skill
\* names of the day, each with the number of skill entries of that name; the items
\* come by count, highest first, equal counts in the order in which the skills first
\* come in the day, and no skill left out has a higher count than a listed one
C26_TopSkills ==
    CalcReturned =>
        LET inDay == InDay(calcInput.date, calcInput.tz)
            top == calcOutput.value.topSkills
            listed == {top[k].skill : k \in DOMAIN top}
        IN  /\ Len(top) <= 5
            /\ Len(top) = Min({5, Cardinality(SkillNames(inDay))})
            /\ listed \subseteq SkillNames(inDay)
            /\ Cardinality(listed) = Len(top)
            /\ \A k \in DOMAIN top : top[k].count = CountOf(inDay, top[k].skill)
            /\ \A k, l \in DOMAIN top :
                  (k < l) =>
                      /\ top[k].count >= top[l].count
                      /\ (top[k].count = top[l].count) =>
                            (FirstOf(inDay, top[k].skill) < FirstOf(inDay, top[l].skill))
            /\ \A name \in SkillNames(inDay) \ listed :
                  \A k \in DOMAIN top : CountOf(inDay, name) <= top[k].count

\* of six skills the one that came last was invoked twice: it is listed first, and
\* the fifth, invoked once like the four before it, is left out
C26_Witness ==
    /\ CalcReturned
    /\ Cardinality(SkillNames(StoredEntries)) = 6
    /\ Len(calcOutput.value.topSkills) = 5
    /\ calcOutput.value.topSkills[1] = [skill |-> SkillsOfDay[6], count |-> 2]
    /\ calcOutput.value.topSkills[5] = [skill |-> SkillsOfDay[4], count |-> 1]

\* the warnings the claims ask of the summary of metrics, in order
Warnings(metrics) ==
    LET n == Len(metrics)
        span == Max(Timestamps(metrics)) - Min(Timestamps(metrics))
    IN  (IF 100 * SuccessCount(metrics) < 80 * n THEN <<"Low success rate">> ELSE <<>>)
        \o (IF DurationOfFirst(metrics, n) > 30000 * n
            THEN <<"High average duration">> ELSE <<>>)
        \o (IF span > 0 /\ n * MsPerHour < 5 * span
            THEN <<"Low invocations per hour">> ELSE <<>>)

\* C27: a summary holds the low-success-rate insight exactly when successRate < 80,
\* the high-duration insight exactly when the average duration > 30000 ms and the
\* low-invocations insight exactly when the invocations per hour < 5, none of them at
\* 80, 30000 and 5, and in that order before the other insights
C27_StrictThresholds ==
    CalcReturned =>
        LET inDay == InDay(calcInput.date, calcInput.tz)
            insights == calcOutput.value.insights
            warnings == SelectSeq(insights, LAMBDA x : x.kind # "Most used skill")
        IN  /\ [i \in DOMAIN warnings |-> warnings[i].kind] = Warnings(inDay)
            /\ \A i \in 1 .. Len(warnings) : insights[i] = warnings[i]

\* five entries in one hour, four of them successes, 30000 ms on average: no warning
C27_Witness ==
    /\ CalcReturned
    /\ calcOutput.value.totalInvocations = 5
    /\ calcOutput.value.successRate = Num(80)
    /\ calcOutput.value.averageDuration = Num(30000)
    /\ calculate(StoredEntries).value.invocationsPerHour = Num(5)
    /\ Len(calcOutput.value.insights) = 1

-----------------------------------------------------------------------------
(* The command line: claims *)

\* C29: no stored entry is in both the baseline sequence and the current sequence
\* that the benchmark command passes to compare
C29_DisjointWindows ==
    (CalcDone /\ Has(calcOutput, "passed")) =>
        Ids(calcOutput.passed.baseline) \cap Ids(calcOutput.passed.current) = {}

-----------------------------------------------------------------------------
(* The usage tracker: claims *)

TrackerIdle == tracker.call = "none" /\ AllIdle

\* C30: between the calls of one tracker none of whose logs was rejected, the entries
\* appended are as many as the calls of beforeExecution plus the calls of
\* afterExecution made while a task was pending; after beforeExecution the last
\* entry has success = false and duration 0 and its task is pending, after
\* afterExecution no task is pending
C30_TrackerAppends ==
    (TrackerIdle /\ tracker.rejected = 0) =>
        /\ file.kind # "raw" =>
              Len(StoredEntries) = tracker.befores + tracker.aftersPending
        /\ tracker.done = "before" =>
              /\ HasEntries(file)
              /\ file.json.entries # <<>>
              /\ LET appended == file.json.entries[Len(file.json.entries)]
                 IN  /\ appended.outcome.success = FALSE
                     /\ appended.outcome.duration = 0
                     /\ appended.context.task = tracker.currentTask
        /\ tracker.done = "after" => tracker.currentTask = NoValue

====
